---- MODULE Spec2Model ----
(***************************************************************************)
(* Model of body-gravity-simulation.py: the classes Point, Body and System *)
(* and the leapfrog loop of System.start_sim.                              *)
(*                                                                         *)
(* Numbers.  The program computes in floating point.  The model computes   *)
(* in fixed point with resolution one unit: lengths are whole millimetres, *)
(* times whole seconds, and a quotient or a square root is rounded toward  *)
(* zero.  In these units the guard constant 10e-10 m^3 of get_acc_for_body *)
(* is 1 mm^3, and the mass unit is chosen so that G is 1.  dt is drawn     *)
(* from even values, so that the dt/2 of the half kick is exact.  The loop *)
(* of start_sim never ends when dt <= 0 and start <= stop; the model       *)
(* follows it for MaxIter iterations.                                      *)
(*                                                                         *)
(* Objects.  Every Body is a fresh object with its own Point objects, as   *)
(* in main(); a Point is modelled by its value <<x, y, z>>.                *)
(*                                                                         *)
(* Control.  start_sim is one sequential call.  pc is the statement it is  *)
(* at and i the index of the body its current for-loop is at.              *)
(***************************************************************************)
EXTENDS Integers, Sequences, FiniteSets, TLC

\* ---------------------------------------------------------------- bounds
MaxBodies == 2
MaxStop == 3
MaxIter == 1
MaxCalls == 2

\* ------------------------------------------------------------- constants
G == 1
EPSILON == 1

\* ---------------------------------------------------------------- inputs
Names == {"Sun", "Earth"}
Masses == {0, 16}
\* <<position, velocity>>
Kinematics == { << <<0, 0, 0>>, <<0, 0, 0>> >>,
                << <<1, 0, 0>>, <<1, 0, 0>> >>,
                << <<0, 2, 0>>, <<0, 0, 0>> >> }
Starts == {0, 1}
Stops == 0..MaxStop
Steps == {-2, 0, 2, 4}

VARIABLES bodies, start, stop, dt, t, pc, i, ret, added, iterations, calls

vars == <<bodies, start, stop, dt, t, pc, i, ret, added, iterations, calls>>

\* ----------------------------------------------------------------- Point
Point(x, y, z) == <<x, y, z>>

Zero == Point(0, 0, 0)

\* v + k * w, componentwise (the three "+=" lines of the update loops)
AddScaled(v, w, k) == Point(v[1] + w[1] * k, v[2] + w[2] * k, v[3] + w[3] * k)

\* a / b rounded toward zero, b > 0
Quot(a, b) == IF a >= 0 THEN a \div b ELSE -((-a) \div b)

\* np.sqrt rounded down to the unit: the k with k * k <= n < (k + 1) * (k + 1),
\* searched for between lo and hi
RECURSIVE SqrtBetween(_, _, _)
SqrtBetween(n, lo, hi) ==
    IF hi - lo <= 1 THEN lo
    ELSE LET mid == (lo + hi) \div 2
         IN  IF mid * mid <= n THEN SqrtBetween(n, mid, hi) ELSE SqrtBetween(n, lo, mid)

ISqrt(n) == SqrtBetween(n, 0, n + 1)

\* ------------------------------------------------------------------ Body
Body(name, mass, position, velocity) ==
    [name |-> name, mass |-> mass, position |-> position, velocity |-> velocity,
     acceleration |-> Zero, position_list |-> << >>]

\* mutants of add_current_pos_to_list: a sample equal to the last one is not
\* recorded again; the sample is put at the front of the list
add_current_pos_to_list_dedupe(body) ==
    IF body.position_list # << >> /\ body.position_list[Len(body.position_list)] = body.position
    THEN body
    ELSE [body EXCEPT !.position_list = Append(@, body.position)]

add_current_pos_to_list_front(body) ==
    [body EXCEPT !.position_list = <<body.position>> \o @]

add_current_pos_to_list(body) ==
    [body EXCEPT !.position_list = Append(@, body.position)]

\* an entry that is no instance of Body
NotABody == [str |-> "not a body"]

Entries == { Body(n, m, k[1], k[2]) : n \in Names, m \in Masses, k \in Kinematics }
             \cup {NotABody}

isinstance(entry) == entry # NotABody

\* ---------------------------------------------------------------- System
\* r ** 3 for r = np.sqrt(d2)
RCubed(d2) == LET r == ISqrt(d2) IN r * r * r

\* mutant of Contribution: the guard is r ** 3 >= 10e-10
Contribution_geq(body, other_body) ==
    LET dx == body.position[1] - other_body.position[1]
        dy == body.position[2] - other_body.position[2]
        dz == body.position[3] - other_body.position[3]
        r3 == RCubed(dx * dx + dy * dy + dz * dz)
    IN  IF body.name # other_body.name /\ r3 >= EPSILON
        THEN Point(-Quot(G * other_body.mass * dx, r3),
                   -Quot(G * other_body.mass * dy, r3),
                   -Quot(G * other_body.mass * dz, r3))
        ELSE Zero

\* what other_body adds to the acceleration of body (lines 103-112)
Contribution(body, other_body) ==
    LET dx == body.position[1] - other_body.position[1]
        dy == body.position[2] - other_body.position[2]
        dz == body.position[3] - other_body.position[3]
        r3 == RCubed(dx * dx + dy * dy + dz * dz)
    IN  IF body.name # other_body.name /\ r3 > EPSILON
        THEN Point(-Quot(G * other_body.mass * dx, r3),
                   -Quot(G * other_body.mass * dy, r3),
                   -Quot(G * other_body.mass * dz, r3))
        ELSE Zero

RECURSIVE AccLoop(_, _, _, _)
AccLoop(bs, body, k, acc) ==
    IF k > Len(bs) THEN acc
    ELSE AccLoop(bs, body, k + 1, AddScaled(acc, Contribution(body, bs[k]), 1))

get_acc_for_body(bs, body) == AccLoop(bs, body, 1, Zero)

Init ==
    /\ bodies = << >>
    /\ start \in Starts
    /\ stop \in Stops
    /\ dt \in Steps
    /\ t = start
    /\ pc = "NotStarted"
    /\ i = 0
    /\ ret = 0
    /\ added = << >>
    /\ iterations = 0
    /\ calls = 0

add_body(entry) ==
    /\ pc = "NotStarted"
    /\ Len(bodies) < MaxBodies
    /\ IF isinstance(entry)
       THEN /\ bodies' = Append(bodies, entry)
            /\ added' = Append(added, entry)
            /\ ret' = 0
       ELSE /\ ret' = 1
            /\ UNCHANGED <<bodies, added>>
    /\ UNCHANGED <<start, stop, dt, t, pc, i, iterations, calls>>

start_sim ==
    /\ pc = "NotStarted"
    /\ pc' = "calculate_acc_0"
    /\ i' = 1
    /\ calls' = calls + 1
    /\ UNCHANGED <<bodies, start, stop, dt, t, ret, added, iterations>>

\* the body of one turn of each for-loop, h being the step the loop is given.
\* mutant of calculate_acc: one loop computes the acceleration and moves the body
calculate_acc_and_move(bs, body) ==
    LET acc == get_acc_for_body(bs, body)
    IN  [body EXCEPT !.acceleration = acc,
                     !.velocity = AddScaled(@, acc, dt),
                     !.position = AddScaled(@, AddScaled(body.velocity, acc, dt), dt)]

calculate_acc(bs, body) ==
    [body EXCEPT !.acceleration = get_acc_for_body(bs, body)]

update_vel(body, h) ==
    [body EXCEPT !.velocity = AddScaled(@, body.acceleration, h)]

\* mutant of update_pos: the drift takes the half step of the first kick
update_pos_half(body, h) ==
    [body EXCEPT !.position = AddScaled(@, body.velocity, h \div 2)]

update_pos(body, h) ==
    [body EXCEPT !.position = AddScaled(@, body.velocity, h)]

\* "for body in self.bodies" is at the body of index i, or past the last one
InPass == i <= Len(bodies)

PassUnchanged == UNCHANGED <<start, stop, dt, t, ret, added, iterations, calls>>

calculate_acc_for_all_bodies ==
    /\ pc \in {"calculate_acc_0", "calculate_acc"}
    /\ IF InPass
       THEN /\ bodies' = [bodies EXCEPT ![i] = calculate_acc(bodies, @)]
            /\ i' = i + 1
            /\ pc' = pc
       ELSE /\ pc' = (IF pc = "calculate_acc_0" THEN "update_vel_half" ELSE "update_vel")
            /\ i' = 1
            /\ UNCHANGED bodies
    /\ PassUnchanged

update_vel_for_all_bodies ==
    /\ pc \in {"update_vel_half", "update_vel"}
    /\ IF InPass
       THEN /\ bodies' = [bodies EXCEPT ![i] =
                             update_vel(@, IF pc = "update_vel_half" THEN dt \div 2 ELSE dt)]
            /\ i' = i + 1
            /\ pc' = pc
       ELSE /\ pc' = (IF pc = "update_vel_half" THEN "add_pos_0" ELSE "add_pos")
            /\ i' = 1
            /\ UNCHANGED bodies
    /\ PassUnchanged

update_pos_for_all_bodies ==
    /\ pc = "update_pos"
    /\ IF InPass
       THEN /\ bodies' = [bodies EXCEPT ![i] = update_pos(@, dt)]
            /\ i' = i + 1
            /\ pc' = pc
       ELSE /\ pc' = "calculate_acc"
            /\ i' = 1
            /\ UNCHANGED bodies
    /\ PassUnchanged

add_pos_to_list_for_all_bodies ==
    /\ pc \in {"add_pos_0", "add_pos"}
    /\ IF InPass
       THEN /\ bodies' = [bodies EXCEPT ![i] = add_current_pos_to_list(@)]
            /\ i' = i + 1
            /\ pc' = pc
       ELSE /\ pc' = (IF pc = "add_pos_0" THEN "while" ELSE "advance")
            /\ i' = 1
            /\ UNCHANGED bodies
    /\ PassUnchanged

\* mutants of the loop condition: t < stop; a loop that tests after its body
LoopCondition_strict == t < stop

LoopCondition_dowhile == t <= stop \/ iterations = 0

\* the loop condition of line 71
LoopCondition == t <= stop

while_enter ==
    /\ pc = "while"
    /\ LoopCondition
    /\ dt > 0 \/ iterations < MaxIter
    /\ pc' = "update_pos"
    /\ i' = 1
    /\ UNCHANGED <<bodies, start, stop, dt, t, ret, added, iterations, calls>>

while_exit ==
    /\ pc = "while"
    /\ ~LoopCondition
    /\ pc' = "Completed"
    /\ UNCHANGED <<bodies, start, stop, dt, t, i, ret, added, iterations, calls>>

\* mutant of advance: the clock takes the half step
advance_half ==
    /\ pc = "advance"
    /\ t' = t + dt \div 2
    /\ iterations' = iterations + 1
    /\ pc' = "while"
    /\ UNCHANGED <<bodies, start, stop, dt, i, ret, added, calls>>

advance ==
    /\ pc = "advance"
    /\ t' = t + dt
    /\ iterations' = iterations + 1
    /\ pc' = "while"
    /\ UNCHANGED <<bodies, start, stop, dt, i, ret, added, calls>>

start_sim_again ==
    /\ pc = "Completed"
    /\ calls < MaxCalls
    /\ pc' = "calculate_acc_0"
    /\ i' = 1
    /\ calls' = calls + 1
    /\ UNCHANGED <<bodies, start, stop, dt, t, ret, added, iterations>>

Run ==
    \/ calculate_acc_for_all_bodies
    \/ update_vel_for_all_bodies
    \/ update_pos_for_all_bodies
    \/ add_pos_to_list_for_all_bodies
    \/ while_enter
    \/ while_exit
    \/ advance

Next ==
    \/ \E entry \in Entries : add_body(entry)
    \/ start_sim
    \/ Run

Spec == Init /\ [][Next]_vars

\* start_sim may be called again on the same instance
NextRerun == Next \/ start_sim_again

SpecRerun == Init /\ [][NextRerun]_vars

\* ------------------------------------------------------------ properties
Bodies == 1..Len(bodies)

Length(k) == Len(bodies[k].position_list)

Sweeps == {"calculate_acc_0", "calculate_acc"}

Kicks == {"update_vel_half", "update_vel"}

\* C1: when start_sim returns, with dt > 0, every position_list has
\* 1 + floor((stop - start) / dt) + 1 samples if start <= stop, and 1 otherwise
ExpectedLength == IF start <= stop THEN 1 + ((stop - start) \div dt) + 1 ELSE 1

C1_TrajectoryLength ==
    (pc = "Completed" /\ dt > 0) => \A k \in Bodies : Length(k) = ExpectedLength

C1_Witness ==
    /\ pc = "Completed"
    /\ dt > 0
    /\ start < stop
    /\ (stop - start) % dt # 0
    /\ Len(bodies) = 2
    /\ \A k \in Bodies : Length(k) = 3

\* C2: with a duplicate name, dt <= 0 or a non-positive mass nothing is stepped:
\* no velocity or position is updated and no sample is recorded
InvalidConfiguration ==
    \/ dt <= 0
    \/ \E j, k \in Bodies : j # k /\ bodies[j].name = bodies[k].name
    \/ \E k \in Bodies : bodies[k].mass <= 0

C2_InvalidInputRejected ==
    InvalidConfiguration =>
        \A k \in Bodies : /\ bodies[k].position_list = << >>
                          /\ bodies[k].velocity = added[k].velocity
                          /\ bodies[k].position = added[k].position

\* C3: whenever a recording pass has finished, all position_lists have the same
\* length, the number of completed loop iterations plus one (at "advance" the
\* iteration whose recording has just finished counts as completed)
RecordingFinished == pc \in {"while", "update_pos", "calculate_acc", "update_vel",
                             "advance", "Completed"}

CompletedIterations == iterations + (IF pc = "advance" THEN 1 ELSE 0)

C3_EqualLengths ==
    RecordingFinished => \A k \in Bodies : Length(k) = CompletedIterations + 1

C3_Witness ==
    /\ pc = "while"
    /\ iterations = 2
    /\ Len(bodies) = 2
    /\ bodies[1].position # added[1].position
    /\ bodies[2].position = added[2].position
    /\ \A k \in Bodies : Length(k) = 3

\* C4: with dt > 0 start_sim terminates: t starts at start, grows by exactly dt
\* with every iteration, and the loop exits at the first point where t > stop.
\* Termination is stated by a variant: while start_sim runs it is at a pass
\* over the bodies (which always has a step, and stays within the bodies), at
\* the clock advance, or at the loop test, which can then be taken; and the
\* number of iterations begun never exceeds floor((stop - start) / dt) + 1
ClockFollowsIterations == pc # "NotStarted" => t = start + iterations * dt

ExitsAtFirstPointPastStop ==
    (pc = "Completed" /\ dt > 0) =>
        /\ t > stop
        /\ iterations > 0 => t - dt <= stop

InIteration == pc \in {"update_pos", "calculate_acc", "update_vel", "add_pos", "advance"}

IterationsBegun == iterations + (IF InIteration THEN 1 ELSE 0)

IterationLimit == IF start <= stop THEN (stop - start) \div dt + 1 ELSE 0

Passes == {"calculate_acc_0", "update_vel_half", "add_pos_0",
           "update_pos", "calculate_acc", "update_vel", "add_pos"}

RunsToCompletion ==
    (dt > 0 /\ pc \notin {"NotStarted", "Completed"}) =>
        /\ pc \in Passes \cup {"while", "advance"}
        /\ pc = "while" => ENABLED (while_enter \/ while_exit)
        /\ pc \in Passes => i <= Len(bodies) + 1
        /\ IterationsBegun <= IterationLimit

C4_Terminates ==
    /\ ClockFollowsIterations
    /\ ExitsAtFirstPointPastStop
    /\ RunsToCompletion

C4_Witness ==
    /\ pc = "Completed"
    /\ dt = 2
    /\ iterations = 2
    /\ t = start + 4
    /\ Len(bodies) = 2

\* C5: if start > stop, after start_sim every position_list is the one sample of
\* the initial position; the loop body never ran, and the sweep and the half
\* kick changed only acceleration and velocity
C5_DegenerateHorizon ==
    (pc = "Completed" /\ start > stop) =>
        /\ iterations = 0
        /\ \A k \in Bodies :
              /\ bodies[k].position_list = <<added[k].position>>
              /\ bodies[k].position = added[k].position
              /\ bodies[k].name = added[k].name
              /\ bodies[k].mass = added[k].mass

C5_Witness ==
    /\ pc = "Completed"
    /\ start > stop
    /\ dt > 0
    /\ Len(bodies) = 2
    /\ bodies[1].acceleration # Zero
    /\ bodies[1].velocity # added[1].velocity
    /\ bodies[1].position_list = <<added[1].position>>

\* C6: a single body has zero acceleration at every step, its velocity never
\* changes, and its k-th sample is initial position + k * dt * initial velocity
C6_SingleBodyStraightLine ==
    (Len(bodies) = 1 /\ pc # "NotStarted") =>
        /\ bodies[1].acceleration = Zero
        /\ bodies[1].velocity = added[1].velocity
        /\ \A k \in 1..Length(1) :
              bodies[1].position_list[k] =
                  AddScaled(added[1].position, added[1].velocity, (k - 1) * dt)

C6_Witness ==
    /\ Len(bodies) = 1
    /\ pc = "Completed"
    /\ dt = 2
    /\ bodies[1].mass > 0
    /\ bodies[1].velocity # Zero
    /\ Length(1) = 3
    /\ bodies[1].position_list[3] # bodies[1].position_list[1]

\* C7: the acceleration a sweep gives a body is the sum of -(G * o.mass * d) / r^3
\* over the bodies o of another name with r^3 > EPSILON; a body with
\* r^3 <= EPSILON adds nothing, and nothing is divided by zero
Delta(a, b) == Point(a.position[1] - b.position[1],
                     a.position[2] - b.position[2],
                     a.position[3] - b.position[3])

SeparationCubed(a, b) ==
    LET d == Delta(a, b) IN RCubed(d[1] * d[1] + d[2] * d[2] + d[3] * d[3])

Pull(a, o) ==
    LET d == Delta(a, o)
        r3 == SeparationCubed(a, o)
    IN  Point(-Quot(G * o.mass * d[1], r3), -Quot(G * o.mass * d[2], r3),
              -Quot(G * o.mass * d[3], r3))

FarOthers(j) == { o \in Bodies : /\ bodies[o].name # bodies[j].name
                                 /\ SeparationCubed(bodies[j], bodies[o]) > EPSILON }

RECURSIVE SumOfPulls(_, _)
SumOfPulls(j, others) ==
    IF others = {} THEN Zero
    ELSE LET o == CHOOSE x \in others : TRUE
         IN  AddScaled(SumOfPulls(j, others \ {o}), Pull(bodies[j], bodies[o]), 1)

C7_NearBodiesSkipped ==
    pc \in Sweeps =>
        \A j \in Bodies : j < i =>
            /\ bodies[j].acceleration = SumOfPulls(j, FarOthers(j))
            /\ \A o \in FarOthers(j) : SeparationCubed(bodies[j], bodies[o]) > 0

C7_Witness ==
    /\ pc = "calculate_acc"
    /\ i = 3
    /\ Len(bodies) = 2
    /\ bodies[1].name # bodies[2].name
    /\ bodies[1].mass > 0
    /\ bodies[2].mass > 0
    /\ bodies[1].position # bodies[2].position
    /\ SeparationCubed(bodies[1], bodies[2]) <= EPSILON
    /\ bodies[1].acceleration = Zero
    /\ bodies[2].acceleration = Zero

\* C8: during a sweep no position or velocity is written; a sweep of the loop
\* starts only when every body has drifted, a kick pass starts only when the
\* sweep has finished for every body, and the kicks then use accelerations
\* that all come from the positions as they stand
SweepWritesNoKinematics ==
    pc \in Sweeps =>
        \A k \in Bodies : /\ bodies'[k].position = bodies[k].position
                          /\ bodies'[k].velocity = bodies[k].velocity

PassesInOrder ==
    /\ (pc' = "calculate_acc" /\ pc # "calculate_acc") => (pc = "update_pos" /\ ~InPass)
    /\ (pc' \in Kicks /\ pc \notin Kicks) => (pc \in Sweeps /\ ~InPass)
    /\ (pc = "update_pos" /\ InPass) => pc' = "update_pos"

OneSnapshot ==
    pc \in Kicks =>
        \A k \in Bodies : bodies[k].acceleration = get_acc_for_body(bodies, bodies[k])

C8_SweepUsesOneSnapshot ==
    /\ []OneSnapshot
    /\ [][SweepWritesNoKinematics /\ PassesInOrder]_vars

C8_Witness ==
    /\ pc = "update_vel"
    /\ i = 1
    /\ iterations = 1
    /\ Len(bodies) = 2
    /\ bodies[2].position # added[2].position
    /\ bodies[1].acceleration # Zero
    /\ bodies[2].acceleration # Zero

\* C9: a position_list only grows, by one sample at its end, the sample being
\* the position at the time; recorded samples are never changed or removed
C9_AppendOnly ==
    [][\A k \in Bodies :
          \/ bodies'[k].position_list = bodies[k].position_list
          \/ bodies'[k].position_list =
                 Append(bodies[k].position_list, bodies[k].position)]_vars

C9_Witness ==
    /\ pc = "Completed"
    /\ Len(bodies) = 2
    /\ Length(1) = 3
    /\ bodies[1].position_list[1] = added[1].position
    /\ bodies[1].position_list[2] # bodies[1].position_list[1]
    /\ bodies[1].position_list[3] = bodies[1].position
    /\ bodies[1].position_list[3] # bodies[1].position_list[2]

\* C10: once start_sim has returned, a further call of start_sim changes no
\* body's velocity, position or position_list
HasReturned == calls >= 2 \/ (calls = 1 /\ pc = "Completed")

C10_SingleRun ==
    [][HasReturned =>
          \A k \in Bodies : /\ bodies'[k].velocity = bodies[k].velocity
                            /\ bodies'[k].position = bodies[k].position
                            /\ bodies'[k].position_list = bodies[k].position_list]_vars

====
